---- MODULE Spec2Model ----
(***************************************************************************)
(* A model of the M/M/1 queue simulations of this repository:              *)
(*   - graphicalMM1.py : naorthreshold, Player / SelfishPlayer /            *)
(*     OptimalPlayer, Queue, Server and Sim (tick-stepped simulation);      *)
(*   - MM1Q.py         : QSim (customer-by-customer simulation).            *)
(*                                                                         *)
(* Real numbers.  Dates and sampled times of Sim and QSim are fixed-point  *)
(* values: the integer x stands for the real x / Scale, so the clock       *)
(* increment `t += 1` is `t + Scale`.  Rates, costs and the quantities of  *)
(* naorthreshold are exact rationals <<numerator, denominator>>.           *)
(***************************************************************************)
EXTENDS Integers, Sequences, FiniteSets, TLC

VARIABLES
    \* ---- graphicalMM1.Sim ----
    pc,                 \* "new" | "ready" | "loop" | "done" | "error" | "hang"
    err,                \* the exception that ended the program, or "none"
    T, lmbda, mu,       \* Sim attributes (T fixed-point, rates integers)
    costofbalking,      \* [kind: "False" | "float" | "list", p: rational, c: rational]
    self_naorthreshold, \* Sim.naorthreshold: a result record of naorthreshold
    naorcalls,          \* number of invocations of naorthreshold so far
    t,                  \* the clock of Sim.run
    P,                  \* every Player created so far, in creation order
    players,            \* Sim.players: the pending list (indices into P)
    nextplayer,         \* the local nextplayer of Sim.run (0: not yet bound)
    queue,              \* Queue.players
    server,             \* Server.players
    nextservicedate,    \* Server.nextservicedate
    completed,          \* Sim.completed
    balked,             \* Sim.balked
    queuelengthdict,    \* Sim.queuelengthdict
    systemstatedict,    \* Sim.systemstatedict
    poplog,             \* every Queue.pop of Sim.run: [p, t, started]
    drawn,              \* the random() draws of line 457 in the latest step: [p, random]
    \* ---- the pure functions, applied to drawn inputs ----
    f_in,               \* [lmbda, mu, c1, c2, s]
    f_naor,             \* <<naorthreshold(.., c1), naorthreshold(.., c2)>> once called
    f_selfish,          \* <<joins at cost c1, joins at cost c2>> once called
    \* ---- MM1Q.QSim ----
    q_pc,               \* "idle" | "loop" | "done"
    simulation_time,    \* the horizon of QSim (fixed-point)
    q_t,                \* the clock t of QSim
    arrival_date,       \* the local arrival_date of QSim
    Customers,          \* the list Customers of QSim
    Utilisation,        \* sum(Service_Times) / t once computed
    \* ---- turtletest.Sim ----
    tt                  \* [pc, N, t, P, players, nextplayer, queue, server,
                        \*  nextservicedate, completed]

simvars == <<pc, err, T, lmbda, mu, costofbalking, self_naorthreshold, naorcalls,
             t, P, players, nextplayer, queue, server, nextservicedate,
             completed, balked, queuelengthdict, systemstatedict, poplog, drawn>>
fvars == <<f_in, f_naor, f_selfish>>
qvars == <<q_pc, simulation_time, q_t, arrival_date, Customers, Utilisation>>
tvars == <<tt>>
vars == <<simvars, fvars, qvars, tvars>>

-----------------------------------------------------------------------------
(* Bounds of the model.                                                    *)

\* Fixed-point resolution: the integer x stands for x / Scale.
Scale == 2
\* Largest horizon T of Sim, in ticks.
MaxT == 3
\* Largest arrival or service rate given to the pure functions.
MaxRate == 3
\* Largest balking cost, in units of 1 / Scale.
MaxCost == 4
\* Largest system occupancy given to the selfish decision.
MaxState == 3
\* Largest simulation_time of QSim, in units of 1 / Scale.
MaxSimTime == 4
\* Largest time QSim samples, in units of 1 / Scale.
MaxSample == 3
\* Largest population N of turtletest.Sim.
MaxN == 3

-----------------------------------------------------------------------------
(* Exact rational arithmetic (Python floats, without rounding).            *)

Abs(x) == IF x < 0 THEN 0 - x ELSE x

RECURSIVE GCD(_, _)
GCD(a, b) == IF b = 0 THEN a ELSE GCD(b, a % b)

\* The rational n / d in lowest terms with a positive denominator (d # 0).
Norm(n, d) ==
    LET g == GCD(Abs(n), Abs(d))
        s == IF d < 0 THEN 0 - 1 ELSE 1
    IN <<(s * n) \div g, (s * d) \div g>>

R(i) == <<i, 1>>
RSub(a, b) == Norm(a[1] * b[2] - b[1] * a[2], a[2] * b[2])
RMul(a, b) == Norm(a[1] * b[1], a[2] * b[2])
RDiv(a, b) == Norm(a[1] * b[2], a[2] * b[1])
RLt(a, b) == a[1] * b[2] < b[1] * a[2]
RLe(a, b) == a[1] * b[2] <= b[1] * a[2]
RIsZero(a) == a[1] = 0

RECURSIVE RPow(_, _)
RPow(a, n) == IF n = 0 THEN R(1) ELSE RMul(a, RPow(a, n - 1))

\* The fixed-point value x as a rational.
Fixed(x) == Norm(x, Scale)

-----------------------------------------------------------------------------
(* graphicalMM1.naorthreshold                                              *)

\* What a call produces: a returned n, an exception, or no return at all.
Returned(n) == [tag |-> "return", n |-> n]
Raised(e) == [tag |-> e, n |-> 0]
NoReturn == [tag |-> "noreturn", n |-> 0]

\* The search is followed for this many iterations: f(n) >= n for every
\* rho > 0, so a threshold for a cost up to MaxCost / Scale and a rate up to
\* MaxRate lies below it.  The search goes beyond it only when no n passes the
\* test (f is increasing from f(0) = 0, and the cost is negative).
NaorCap == (MaxRate * MaxCost) \div Scale + 2

\* The expression of lines 139 and 140: (n(1-rho) - rho(1-rho^n)) / (1-rho)^2.
NaorSide(n, rho) ==
    RDiv(RSub(RMul(R(n), RSub(R(1), rho)),
              RMul(rho, RSub(R(1), RPow(rho, n)))),
         RPow(RSub(R(1), rho), 2))

\* A variant whose upper comparison is not strict.
NaorTest_NotStrict(n, center, rho) ==
    /\ RLe(NaorSide(n, rho), center)
    /\ RLe(center, NaorSide(n + 1, rho))

NaorTest(n, center, rho) ==
    /\ RLe(NaorSide(n, rho), center)
    /\ RLt(center, NaorSide(n + 1, rho))

RECURSIVE NaorLoop(_, _, _)
NaorLoop(n, center, rho) ==
    IF RIsZero(RPow(RSub(R(1), rho), 2)) THEN Raised("ZeroDivisionError")
    ELSE IF n > NaorCap
         THEN \* rho > 1: rho ** n leaves the range of floats after finitely
              \* many iterations; rho < 1: nothing ends the loop.
              IF RLt(R(1), rho) THEN Raised("OverflowError") ELSE NoReturn
    ELSE IF NaorTest(n, center, rho) THEN Returned(n)
    ELSE NaorLoop(n + 1, center, rho)

\* A variant that divides the rate by the cost instead of multiplying.
naorthreshold_DividesCost(l, m, c) ==
    IF m = 0 \/ RIsZero(c) THEN Raised("ZeroDivisionError")
    ELSE NaorLoop(0, RDiv(R(m), c), RDiv(R(l), R(m)))

\* naorthreshold(lmbda, mu, costofbalking); the cost is a rational (False is 0).
naorthreshold(l, m, c) ==
    IF m = 0 THEN Raised("ZeroDivisionError")
    ELSE NaorLoop(0, RMul(R(m), c), RDiv(R(l), R(m)))

-----------------------------------------------------------------------------
(* SelfishPlayer.arrive: the decision of line 265.                         *)

\* A variant with the comparison turned round.
SelfishJoins_Reversed(systemstate, m, c) ==
    RLt(c, RDiv(R(systemstate + 1), R(m)))

SelfishJoins(systemstate, m, c) ==
    RLt(RDiv(R(systemstate + 1), R(m)), c)

\* A variant of OptimalJoins whose comparison is not strict.
OptimalJoins_NotStrict(systemstate, threshold) ==
    systemstate <= threshold

\* A variant of OptimalJoins that never balks.
OptimalJoins_Always(systemstate, threshold) ==
    systemstate >= 0

\* OptimalPlayer.arrive: the decision of line 300.
OptimalJoins(systemstate, threshold) ==
    systemstate < threshold

-----------------------------------------------------------------------------
(* graphicalMM1: Player, SelfishPlayer, OptimalPlayer, Queue, Server.      *)

\* An attribute that has not been assigned yet (arrivaldate, servicedate,
\* endqueuedate, endservicedate, waitingtime, and arrive's local systemstate).
Unset == -1

\* Player.__init__ (and the subclasses'): both times are sampled at creation.
NewPlayer(kind, interarrivaltime, servicetime) ==
    [kind |-> kind,
     interarrivaltime |-> interarrivaltime,
     servicetime |-> servicetime,
     served |-> FALSE,
     balked |-> FALSE,
     arrivaldate |-> Unset,
     systemstate |-> Unset,
     servicedate |-> Unset,
     endqueuedate |-> Unset,
     endservicedate |-> Unset,
     waitingtime |-> Unset]

\* The part of the state the methods below read and write.
Here ==
    [P |-> P, players |-> players, nextplayer |-> nextplayer, queue |-> queue,
     server |-> server, nextservicedate |-> nextservicedate,
     completed |-> completed, balked |-> balked, poplog |-> poplog,
     drawn |-> <<>>]

\* `not self.costofbalking`: False and 0.0 are falsy, a list of two is not.
Truthy(c) == c.kind = "list" \/ (c.kind = "float" /\ ~RIsZero(c.c))

\* Queue.join
QueueJoin(s, p) == [s EXCEPT !.queue = Append(@, p)]

\* Queue.pop(0): the caller reads s.queue[1] first.
QueuePop(s) == [s EXCEPT !.queue = Tail(@)]

\* Server.start: append, sort by servicedate (stable), read the head's date.
ServerStart(s, p) ==
    LET early == SelectSeq(s.server,
                           LAMBDA q : s.P[q].servicedate <= s.P[p].servicedate)
        late == SelectSeq(s.server,
                          LAMBDA q : s.P[q].servicedate > s.P[p].servicedate)
        sorted == early \o <<p>> \o late
    IN [s EXCEPT !.server = sorted,
                 !.nextservicedate = s.P[sorted[1]].servicedate]

\* A variant that reports the server free whenever asked.
ServerFree_Always(s) == Len(s.server) >= 0

\* Server.free
ServerFree(s) == Len(s.server) = 0

\* The decision an arriving player takes, by class: Player.arrive joins
\* unconditionally, SelfishPlayer.arrive and OptimalPlayer.arrive may balk.
\* Each player's costofbalking / naorthreshold is the one Sim.newplayer passed.
Joins(kind, systemstate) ==
    CASE kind = "Player" -> TRUE
      [] kind = "SelfishPlayer" -> SelfishJoins(systemstate, mu, costofbalking.c)
      [] kind = "OptimalPlayer" -> OptimalJoins(systemstate, self_naorthreshold.n)

\* A variant that counts the queue only.
SystemState_QueueOnly(s) == Len(s.queue)

\* The system state the balking players compute on arrival (lines 264, 299).
SystemState(s) == Len(s.queue) + Len(s.server)

\* Player.arrive / SelfishPlayer.arrive / OptimalPlayer.arrive
Arrive(s, p, now) ==
    LET kind == s.P[p].kind
        systemstate == IF kind = "Player" THEN Unset ELSE SystemState(s)
        a == [s EXCEPT !.P[p].arrivaldate = now,
                       !.P[p].systemstate = systemstate]
    IN IF Joins(kind, systemstate)
       THEN QueueJoin(a, p)
       ELSE [a EXCEPT !.P[p].balked = TRUE]

\* A variant that does not look at balked.
StartService_IgnoresBalked(s, p, now) ==
    IF ~s.P[p].served
    THEN LET a == [s EXCEPT !.P[p].servicedate = now + s.P[p].servicetime]
             b == ServerStart(a, p)
         IN [b EXCEPT !.P[p].endqueuedate = now]
    ELSE s

\* A variant that does not look at served.
StartService_IgnoresServed(s, p, now) ==
    IF ~s.P[p].balked
    THEN LET a == [s EXCEPT !.P[p].servicedate = now + s.P[p].servicetime]
             b == ServerStart(a, p)
         IN [b EXCEPT !.P[p].endqueuedate = now]
    ELSE s

\* Player.startservice
StartService(s, p, now) ==
    IF ~s.P[p].served /\ ~s.P[p].balked
    THEN LET a == [s EXCEPT !.P[p].servicedate = now + s.P[p].servicetime]
             b == ServerStart(a, p)
         IN [b EXCEPT !.P[p].endqueuedate = now]
    ELSE s

\* A variant that leaves the player in the server.
EndService_StaysInServer(s, p) ==
    [s EXCEPT !.P[p].endservicedate = s.P[p].endqueuedate + s.P[p].servicetime,
              !.P[p].waitingtime = s.P[p].endqueuedate - s.P[p].arrivaldate,
              !.P[p].served = TRUE]

\* Player.endservice
EndService(s, p) ==
    [s EXCEPT !.server = Tail(@),
              !.P[p].endservicedate = s.P[p].endqueuedate + s.P[p].servicetime,
              !.P[p].waitingtime = s.P[p].endqueuedate - s.P[p].arrivaldate,
              !.P[p].served = TRUE]

-----------------------------------------------------------------------------
(* graphicalMM1.Sim                                                        *)

\* The values random.expovariate is drawn from: 1 / Scale, which the clock
\* passes at the next tick, and 1, which it passes one tick later.
InterSamples == {1, Scale}
ServiceSamples == {1, Scale}
\* The values random.random is drawn from, in [0, 1).
UniformSamples == {Fixed(r) : r \in 0 .. Scale - 1}

\* One creation's random draws: the two times and, when costofbalking is a
\* list, the uniform of line 457.
Draws ==
    [interarrivaltime : InterSamples, servicetime : ServiceSamples,
     random : IF costofbalking.kind = "list" THEN UniformSamples ELSE {R(0)}]

\* A variant whose comparison with the proportion is not strict.
PlayerKind_NotStrict(random) ==
    IF ~Truthy(costofbalking) THEN "Player"
    ELSE IF costofbalking.kind = "list"
         THEN IF RLe(random, costofbalking.p)
              THEN "SelfishPlayer"
              ELSE "OptimalPlayer"
         ELSE "SelfishPlayer"

\* A variant without the test of line 454.
PlayerKind_NoFalseTest(random) ==
    IF costofbalking.kind = "list"
    THEN IF RLt(random, costofbalking.p)
         THEN "SelfishPlayer"
         ELSE "OptimalPlayer"
    ELSE "SelfishPlayer"

\* Sim.newplayer: the class of the player it creates.
PlayerKind(random) ==
    IF ~Truthy(costofbalking) THEN "Player"
    ELSE IF costofbalking.kind = "list"
         THEN IF RLt(random, costofbalking.p)
              THEN "SelfishPlayer"
              ELSE "OptimalPlayer"
         ELSE "SelfishPlayer"

\* A variant that generates a player whether or not one is pending.
newplayer_Always(s, d) ==
    [s EXCEPT !.P = Append(@, NewPlayer(PlayerKind(d.random),
                                        d.interarrivaltime, d.servicetime)),
              !.players = Append(@, Len(s.P) + 1),
              !.drawn = IF Truthy(costofbalking) /\ costofbalking.kind = "list"
                        THEN Append(@, [p |-> Len(s.P) + 1,
                                        random |-> d.random])
                        ELSE @]

\* Sim.newplayer: creates a player only when the pending list is empty; the
\* uniform draw is logged when line 457 is executed.
newplayer(s, d) ==
    IF Len(s.players) = 0
    THEN [s EXCEPT !.P = Append(@, NewPlayer(PlayerKind(d.random),
                                             d.interarrivaltime, d.servicetime)),
                   !.players = Append(@, Len(s.P) + 1),
                   !.drawn = IF Truthy(costofbalking) /\ costofbalking.kind = "list"
                             THEN Append(@, [p |-> Len(s.P) + 1,
                                             random |-> d.random])
                             ELSE @]
    ELSE s

\* nextplayer = self.players.pop()
PopPending(s) ==
    [s EXCEPT !.nextplayer = s.players[Len(s.players)],
              !.players = SubSeq(@, 1, Len(@) - 1)]

\* nextservice = self.queue.pop(0); nextservice.startservice(t)
\* (lines 497-498 and 510-511), with the pop logged.
PopAndStart(s, now) ==
    LET p == s.queue[1]
        a == QueuePop(s)
        b == StartService(a, p, now)
    IN [b EXCEPT !.poplog = Append(@, [p |-> p, t |-> now, started |-> b # a])]

\* A variant whose comparison with the service date is not strict.
FinishService_NotStrict(s, now, d) ==
    IF ~ServerFree(s) /\ now >= s.nextservicedate
    THEN LET p == s.server[1]
             a == [s EXCEPT !.completed = Append(@, p)]
             b == EndService(a, p)
         IN IF Len(b.queue) > 0
            THEN newplayer(PopAndStart(b, now), d)
            ELSE b
    ELSE s

\* Lines 493-499: check if service finishes.
FinishService(s, now, d) ==
    IF ~ServerFree(s) /\ now > s.nextservicedate
    THEN LET p == s.server[1]
             a == [s EXCEPT !.completed = Append(@, p)]
             b == EndService(a, p)
         IN IF Len(b.queue) > 0
            THEN newplayer(PopAndStart(b, now), d)
            ELSE b
    ELSE s

\* A variant whose comparison with the arrival instant is not strict.
ArrivalDue_NotStrict(s, now) ==
    now >= s.P[s.players[Len(s.players)]].interarrivaltime
           + s.P[s.nextplayer].arrivaldate

\* The condition of line 501 (the pending list is not empty).
ArrivalDue(s, now) ==
    now > s.P[s.players[Len(s.players)]].interarrivaltime
          + s.P[s.nextplayer].arrivaldate

\* Lines 501-511: check if the player that is waiting arrives.
ProcessArrival(s, now) ==
    IF ArrivalDue(s, now)
    THEN LET a == PopPending(s)
             p == a.nextplayer
             b == Arrive(a, p, now)
             c == IF b.P[p].balked
                  THEN [b EXCEPT !.balked = Append(@, p)]
                  ELSE b
         IN IF ServerFree(c)
            THEN IF Len(c.queue) = 0
                 THEN StartService(c, p, now)
                 ELSE PopAndStart(c, now)
            ELSE c
    ELSE s

\* Number of players of class kind in a list.
CountKind(s, list, kind) ==
    Cardinality({i \in 1 .. Len(list) : s.P[list[i]].kind = kind})

\* Sim.collectdata: the value stored in queuelengthdict[t].
QueueLengthEntry(s) ==
    IF Truthy(costofbalking)
    THEN LET selfishqueuelength == CountKind(s, s.queue, "SelfishPlayer")
         IN <<selfishqueuelength, Len(s.queue) - selfishqueuelength>>
    ELSE Len(s.queue)

\* Sim.collectdata: the value stored in systemstatedict[t].
SystemStateEntry(s) ==
    IF Truthy(costofbalking)
    THEN IF ServerFree(s)
         THEN <<0, 0>>
         ELSE <<QueueLengthEntry(s)[1] + CountKind(s, s.server, "SelfishPlayer"),
                QueueLengthEntry(s)[2] + CountKind(s, s.server, "OptimalPlayer")>>
    ELSE IF ServerFree(s)
         THEN 0
         ELSE QueueLengthEntry(s) + 1

\* A variant that stores under the tick before.
Store_TickBefore(dict, key, value) ==
    [k \in DOMAIN dict \cup {key - Scale} |->
        IF k = key - Scale THEN value ELSE dict[k]]

\* dict[key] = value
Store(dict, key, value) ==
    [k \in DOMAIN dict \cup {key} |-> IF k = key THEN value ELSE dict[k]]

EmptyDict == [k \in {} |-> 0]

\* The configurations Sim is constructed with.
SimRates == {<<1, 2>>, <<2, 1>>, <<1, 1>>}
Costs == {Fixed(1), Fixed(2 * Scale + 1)}
Proportions == {R(0), Fixed(1), R(1)}
CostsOfBalking ==
    {[kind |-> "False", p |-> R(0), c |-> R(0)]}
    \cup {[kind |-> "float", p |-> R(0), c |-> c] : c \in Costs}
    \cup {[kind |-> "list", p |-> p, c |-> c] : p \in Proportions, c \in Costs}
Horizons == {0, 1, MaxT * Scale}

\* The state every simulation variable has while another program is modelled.
SimIdle ==
    /\ pc = "new" /\ err = "none"
    /\ self_naorthreshold = Raised("unset") /\ naorcalls = 0
    /\ t = 0 /\ P = <<>> /\ players = <<>> /\ nextplayer = 0
    /\ queue = <<>> /\ server = <<>> /\ nextservicedate = Unset
    /\ completed = <<>> /\ balked = <<>>
    /\ queuelengthdict = EmptyDict /\ systemstatedict = EmptyDict
    /\ poplog = <<>> /\ drawn = <<>>

FIdle ==
    /\ f_in = [lmbda |-> 1, mu |-> 1, c1 |-> R(0), c2 |-> R(0), s |-> 0]
    /\ f_naor = <<>> /\ f_selfish = <<>>

QIdle ==
    /\ q_pc = "idle" /\ simulation_time = 0
    /\ q_t = 0 /\ arrival_date = Unset /\ Customers = <<>> /\ Utilisation = <<>>

TIdle ==
    tt = [pc |-> "idle", N |-> 0, t |-> 0, P |-> <<>>, players |-> <<>>,
          nextplayer |-> 0, queue |-> <<>>, server |-> <<>>,
          nextservicedate |-> Unset, completed |-> <<>>]

SimUnused ==
    /\ SimIdle
    /\ lmbda = 1 /\ mu = 1 /\ T = 0
    /\ costofbalking = [kind |-> "False", p |-> R(0), c |-> R(0)]

\* The program is started with its arguments; nothing is constructed yet.
Init ==
    /\ SimIdle /\ FIdle /\ QIdle /\ TIdle
    /\ \E r \in SimRates : lmbda = r[1] /\ mu = r[2]
    /\ T \in Horizons
    /\ costofbalking \in CostsOfBalking

\* Sim.__init__ (lines 427-443): the containers are empty, and the threshold
\* is computed from the cost whatever the kind of costofbalking.
Construct ==
    /\ pc = "new"
    /\ LET cost == IF costofbalking.kind = "False" THEN R(0) ELSE costofbalking.c
           res == naorthreshold(lmbda, mu, cost)
       IN /\ naorcalls' = naorcalls + 1
          /\ self_naorthreshold' = res
          /\ pc' = CASE res.tag = "return" -> "ready"
                     [] res.tag = "noreturn" -> "hang"
                     [] OTHER -> "error"
          /\ err' = IF res.tag \in {"return", "noreturn"} THEN "none" ELSE res.tag
    /\ UNCHANGED <<T, lmbda, mu, costofbalking, t, P, players, nextplayer, queue,
                   server, nextservicedate, completed, balked, queuelengthdict,
                   systemstatedict, poplog, drawn, fvars, qvars, tvars>>

\* The state s becomes the state of the simulation.
Becomes(s) ==
    /\ P' = s.P /\ players' = s.players /\ nextplayer' = s.nextplayer
    /\ queue' = s.queue /\ server' = s.server
    /\ nextservicedate' = s.nextservicedate
    /\ completed' = s.completed /\ balked' = s.balked /\ poplog' = s.poplog
    /\ drawn' = s.drawn

\* Sim.run, lines 483-488: the first player arrives and starts service at 0.
RunStart ==
    /\ pc = "ready"
    /\ \E d1 \in Draws, d2 \in Draws :
         \E a \in {PopPending(newplayer(Here, d1))} :
         \E b \in {Arrive(a, a.nextplayer, 0)} :
         \E c \in {StartService(b, a.nextplayer, 0)} :
         \E e \in {newplayer(c, d2)} :
             Becomes(e)
    /\ t' = 0
    /\ pc' = "loop"
    /\ UNCHANGED <<err, T, lmbda, mu, costofbalking, self_naorthreshold, naorcalls,
                   queuelengthdict, systemstatedict, fvars, qvars, tvars>>

\* Sim.run, lines 489-513: one iteration of the loop.
Tick ==
    /\ pc = "loop"
    /\ t < T
    /\ \E d \in Draws :
         \E now \in {t + Scale} :
         \E a \in {FinishService(Here, now, d)} :
             IF Len(a.players) = 0
             THEN /\ pc' = "error" /\ err' = "IndexError"
                  /\ Becomes(a)
                  /\ UNCHANGED <<queuelengthdict, systemstatedict>>
             ELSE \E b \in {ProcessArrival(a, now)} :
                  \E c \in {newplayer(b, d)} :
                      /\ Becomes(c)
                      /\ queuelengthdict' = Store(queuelengthdict, now,
                                                  QueueLengthEntry(c))
                      /\ systemstatedict' = Store(systemstatedict, now,
                                                  SystemStateEntry(c))
                      /\ UNCHANGED <<pc, err>>
    /\ t' = t + Scale
    /\ UNCHANGED <<T, lmbda, mu, costofbalking, self_naorthreshold, naorcalls,
                   fvars, qvars, tvars>>

\* Sim.run, line 489: the loop ends when t < T fails, and run returns.
RunEnd ==
    /\ pc = "loop"
    /\ ~(t < T)
    /\ pc' = "done"
    /\ UNCHANGED <<err, T, lmbda, mu, costofbalking, self_naorthreshold, naorcalls,
                   t, P, players, nextplayer, queue, server, nextservicedate,
                   completed, balked, queuelengthdict, systemstatedict, poplog,
                   drawn, fvars, qvars, tvars>>

Next == Construct \/ RunStart \/ Tick \/ RunEnd

Spec == Init /\ [][Next]_vars

\* The loop of run makes another iteration exactly when its condition holds:
\* ENABLED <<Tick>>_vars, written out.
TickEnabled == pc = "loop" /\ t < T

\* run is sequential code: once called, a step of it that can execute does.
\* The last conjunct is WF_vars(Tick) with its enabling condition written out.
SpecLive ==
    Spec /\ WF_vars(RunStart) /\ WF_vars(RunEnd)
         /\ ([]<>~TickEnabled \/ []<><<Tick>>_vars)

-----------------------------------------------------------------------------
(* The pure functions naorthreshold and SelfishPlayer's decision, applied  *)
(* to inputs drawn from bounded sets.                                      *)

FRates == 1 .. MaxRate
FCosts == {Fixed(c) : c \in 0 - MaxCost .. MaxCost}

InitF ==
    /\ SimUnused /\ QIdle /\ TIdle
    /\ f_in \in [lmbda : FRates, mu : FRates, c1 : FCosts, c2 : FCosts,
                 s : 0 .. MaxState]
    /\ f_naor = <<>> /\ f_selfish = <<>>

\* naorthreshold is called with each of the two costs.
CallNaor ==
    /\ f_naor = <<>>
    /\ f_naor' = <<naorthreshold(f_in.lmbda, f_in.mu, f_in.c1),
                   naorthreshold(f_in.lmbda, f_in.mu, f_in.c2)>>
    /\ UNCHANGED <<f_in, f_selfish, simvars, qvars, tvars>>

\* A SelfishPlayer decides at occupancy s with each of the two costs.
CallSelfish ==
    /\ f_selfish = <<>>
    /\ f_selfish' = <<SelfishJoins(f_in.s, f_in.mu, f_in.c1),
                      SelfishJoins(f_in.s, f_in.mu, f_in.c2)>>
    /\ UNCHANGED <<f_in, f_naor, simvars, qvars, tvars>>

NextF == CallNaor \/ CallSelfish

SpecF == InitF /\ [][NextF]_vars

-----------------------------------------------------------------------------
(* MM1Q.QSim.  The rates only shape the distribution of the samples, which *)
(* are drawn here from a fixed set.                                        *)

QSamples == 1 .. MaxSample

\* A variant that records the start of service as the arrival date.
Customer_ArrivesAtStart(arrival, service_start_date, service_time) ==
    [arrival_date |-> service_start_date,
     service_start_date |-> service_start_date,
     service_time |-> service_time,
     service_end_date |-> service_start_date + service_time,
     wait |-> service_start_date - arrival]

\* Customer.__init__
Customer(arrival, service_start_date, service_time) ==
    [arrival_date |-> arrival,
     service_start_date |-> service_start_date,
     service_time |-> service_time,
     service_end_date |-> service_start_date + service_time,
     wait |-> service_start_date - arrival]

\* A variant that always answers its first argument.
Max_First(a, b) == a

Max(a, b) == IF a >= b THEN a ELSE b

RECURSIVE Sum(_)
Sum(seq) == IF Len(seq) = 0 THEN 0 ELSE Head(seq) + Sum(Tail(seq))

InitQ ==
    /\ SimUnused /\ FIdle /\ TIdle
    /\ q_pc = "idle"
    /\ simulation_time \in 1 .. MaxSimTime
    /\ q_t = 0 /\ arrival_date = Unset /\ Customers = <<>> /\ Utilisation = <<>>

\* Lines 33-36: the clock and the list are initialised.
QStart ==
    /\ q_pc = "idle"
    /\ q_pc' = "loop"
    /\ q_t' = 0
    /\ Customers' = <<>>
    /\ UNCHANGED <<simulation_time, arrival_date, Utilisation, simvars, fvars, tvars>>

\* Lines 40-55: one iteration of the loop creates one customer.
QIter ==
    /\ q_pc = "loop"
    /\ q_t < simulation_time
    /\ \E inter \in QSamples, service_time \in QSamples :
         LET arrival == IF Len(Customers) = 0
                        THEN inter
                        ELSE arrival_date + inter
             service_start_date ==
                 IF Len(Customers) = 0
                 THEN arrival
                 ELSE Max(arrival, Customers[Len(Customers)].service_end_date)
         IN /\ arrival_date' = arrival
            /\ Customers' = Append(Customers, Customer(arrival, service_start_date,
                                                       service_time))
            /\ q_t' = arrival
    /\ UNCHANGED <<q_pc, simulation_time, Utilisation, simvars, fvars, tvars>>

\* Lines 58-68: the summary statistics, once the loop has ended.
QSummary ==
    /\ q_pc = "loop"
    /\ ~(q_t < simulation_time)
    /\ LET Service_Times == [i \in 1 .. Len(Customers) |-> Customers[i].service_time]
       IN Utilisation' = RDiv(Fixed(Sum(Service_Times)), Fixed(q_t))
    /\ q_pc' = "done"
    /\ UNCHANGED <<simulation_time, q_t, arrival_date, Customers, simvars, fvars, tvars>>

NextQ == QStart \/ QIter \/ QSummary

SpecQ == InitQ /\ [][NextQ]_vars

\* QSim is sequential code: a step of it that can execute does.
SpecQLive ==
    SpecQ /\ WF_vars(QStart) /\ WF_vars(QIter) /\ WF_vars(QSummary)

-----------------------------------------------------------------------------
(* turtletest.Sim: a fixed population of N players, created at            *)
(* construction; run ends when all of them have been completed.            *)

\* Player.__init__: arrivaldate and servicedate are assigned later.
TPlayer(interarrivaltime, servicetime) ==
    [interarrivaltime |-> interarrivaltime,
     servicetime |-> servicetime,
     served |-> FALSE,
     arrivaldate |-> Unset,
     servicedate |-> Unset]

\* Player.arrive followed by Player.joinqueue (Queue.join).
TArriveAndJoin(s, p, now) ==
    [s EXCEPT !.P[p].arrivaldate = now, !.queue = Append(@, p)]

\* Server.start: append, sort by servicedate (stable), read the head's date.
TServerStart(s, p) ==
    LET early == SelectSeq(s.server,
                           LAMBDA q : s.P[q].servicedate <= s.P[p].servicedate)
        late == SelectSeq(s.server,
                          LAMBDA q : s.P[q].servicedate > s.P[p].servicedate)
        sorted == early \o <<p>> \o late
    IN [s EXCEPT !.server = sorted,
                 !.nextservicedate = s.P[sorted[1]].servicedate]

\* A variant of Player.startservice that does not look at served.
TStartService_IgnoresServed(s, p, now) ==
    TServerStart([s EXCEPT !.P[p].servicedate = now + s.P[p].servicetime], p)

\* Player.startservice
TStartService(s, p, now) ==
    IF ~s.P[p].served
    THEN TServerStart([s EXCEPT !.P[p].servicedate = now + s.P[p].servicetime], p)
    ELSE s

\* Player.endservice
TEndService(s, p) ==
    [s EXCEPT !.server = Tail(@), !.P[p].served = TRUE]

\* nextplayer = self.players.pop(); nextplayer.arrive(t); nextplayer.joinqueue()
TNextArrives(s, now) ==
    LET p == s.players[Len(s.players)]
        a == [s EXCEPT !.nextplayer = p,
                       !.players = SubSeq(@, 1, Len(@) - 1)]
    IN TArriveAndJoin(a, p, now)

\* Lines 88-96: a free server starts a service, a busy one may complete one.
TServe(s, now) ==
    IF Len(s.server) = 0
    THEN IF Len(s.queue) = 0
         THEN TStartService(s, s.nextplayer, now)
         ELSE TStartService([s EXCEPT !.queue = Tail(@)], s.queue[1], now)
    ELSE IF now > s.nextservicedate
         THEN TEndService([s EXCEPT !.completed = Append(@, s.server[1])],
                          s.server[1])
         ELSE s

\* Lines 97-100: the next player arrives if there is one and its time has come.
TArrival(s, now) ==
    IF /\ Len(s.players) > 0
       /\ now > s.P[s.players[Len(s.players)]].interarrivaltime
                + s.P[s.nextplayer].arrivaldate
    THEN TNextArrives(s, now)
    ELSE s

\* The values random.expovariate is drawn from: inter-arrival times of
\* 1 / Scale and of 2 + 1 / Scale, which leaves the system empty for a while;
\* service times of 1 / Scale and of 1.
TInterSamples == {1, 2 * Scale + 1}
TServiceSamples == {1, Scale}

\* The program is started with N; nothing is constructed yet.
InitT ==
    /\ SimUnused /\ FIdle /\ QIdle
    /\ \E n \in 1 .. MaxN :
           tt = [pc |-> "new", N |-> n, t |-> 0, P |-> <<>>, players |-> <<>>,
                 nextplayer |-> 0, queue |-> <<>>, server |-> <<>>,
                 nextservicedate |-> Unset, completed |-> <<>>]

\* Sim.__init__ (lines 75-80): the N players are created, with their samples.
TConstruct ==
    /\ tt.pc = "new"
    /\ \E inter \in [1 .. tt.N -> TInterSamples],
          service \in [1 .. tt.N -> TServiceSamples] :
           tt' = [tt EXCEPT !.pc = "ready",
                            !.P = [k \in 1 .. tt.N |->
                                       TPlayer(inter[k], service[k])],
                            !.players = [k \in 1 .. tt.N |-> k]]
    /\ UNCHANGED <<simvars, fvars, qvars>>

\* Sim.run, lines 82-85: the last player of the list arrives at t = 0.
TRunStart ==
    /\ tt.pc = "ready"
    /\ \E a \in {TNextArrives([tt EXCEPT !.t = 0], 0)} :
           tt' = [a EXCEPT !.pc = "loop"]
    /\ UNCHANGED <<simvars, fvars, qvars>>

\* The loop of run makes another iteration while players remain to complete.
TTickEnabled == tt.pc = "loop" /\ Len(tt.completed) < tt.N

\* Sim.run, lines 86-100: one iteration of the loop.
TTick ==
    /\ TTickEnabled
    /\ \E now \in {tt.t + Scale} :
       \E a \in {TServe(tt, now)} :
       \E b \in {TArrival(a, now)} :
           tt' = [b EXCEPT !.t = now]
    /\ UNCHANGED <<simvars, fvars, qvars>>

\* Sim.run, line 86: the loop ends when every player is completed.
TRunEnd ==
    /\ tt.pc = "loop"
    /\ ~(Len(tt.completed) < tt.N)
    /\ tt' = [tt EXCEPT !.pc = "done"]
    /\ UNCHANGED <<simvars, fvars, qvars>>

NextT == TConstruct \/ TRunStart \/ TTick \/ TRunEnd

SpecT == InitT /\ [][NextT]_vars

\* run is sequential code: a step of it that can execute does.
SpecTLive ==
    SpecT /\ WF_vars(TRunStart) /\ WF_vars(TTick) /\ WF_vars(TRunEnd)

-----------------------------------------------------------------------------
(* The claims.                                                             *)

InSeq(x, seq) == \E i \in 1 .. Len(seq) : seq[i] = x

\* The players whose arrival has been processed.
Processed == {p \in 1 .. Len(P) : P[p].arrivaldate # Unset}

\* The players that joined the queue on arrival.
Joined == {p \in Processed : ~P[p].balked}

\* A recorded value: one number without balking, the sum of the pair with.
Total(v) == IF Truthy(costofbalking) THEN v[1] + v[2] ELSE v

Popped(p) == \E i \in 1 .. Len(poplog) : poplog[i].p = p

\* C1: at every recorded tick the recorded system occupancy is the recorded
\* queue length plus 1 if the server is occupied and plus 0 if it is free.
\* (The tick just recorded is t, and the server is as collectdata saw it.)
C1_RecordedOccupancy ==
    t \in DOMAIN systemstatedict =>
        Total(systemstatedict[t])
            = Total(queuelengthdict[t]) + (IF Len(server) > 0 THEN 1 ELSE 0)

\* C2 as claimed: after run returns every processed customer has exactly one
\* of balked and served.
C2_ExactlyOneTerminal ==
    pc = "done" => \A p \in Processed : P[p].balked # P[p].served

\* C2 as amended: after run returns no processed customer is both balked and
\* served, and one that is neither is still in the queue or in service.
C2_AtMostOneTerminal ==
    pc = "done" =>
        \A p \in Processed :
            /\ ~(P[p].balked /\ P[p].served)
            /\ (~P[p].balked /\ ~P[p].served) => (InSeq(p, queue) \/ InSeq(p, server))

\* C2 witness: a finished run with a balked, a served and a waiting customer.
C2_Witness ==
    /\ pc = "done"
    /\ \E p \in Processed : P[p].balked /\ ~P[p].served
    /\ \E p \in Processed : P[p].served /\ ~P[p].balked
    /\ \E p \in Processed : ~P[p].served /\ ~P[p].balked /\ InSeq(p, queue)

\* C3, first part: of two customers that joined, the one whose arrival was
\* processed first (the one created first) starts service no later.
C3_StartOrder ==
    \A a \in Joined, b \in Joined :
        (a < b /\ P[b].endqueuedate # Unset) =>
            (P[a].endqueuedate # Unset /\ P[a].endqueuedate <= P[b].endqueuedate)

\* C3, second part: customers leave the queue from its head only, that is in
\* the order they joined, and a joined customer is in the queue until popped.
C3_HeadOnly ==
    /\ \A i \in 1 .. Len(poplog), j \in 1 .. Len(poplog) :
           i < j => poplog[i].p < poplog[j].p
    /\ \A p \in Joined : InSeq(p, queue) # Popped(p)

\* C3, third part: nobody leaves the queue other than to start service.
C3_LeavesToStartService ==
    \A i \in 1 .. Len(poplog) : poplog[i].started

\* C3: FIFO service order, leaving from the head only, and only to start service.
C3_FIFO == C3_StartOrder /\ C3_HeadOnly /\ C3_LeavesToStartService

\* C4: the utilisation QSim reports lies between 0 and 1.
C4_UtilisationBounded ==
    q_pc = "done" => (RLe(R(0), Utilisation) /\ RLe(Utilisation, R(1)))

\* C5: without balking naorthreshold is never invoked, and the construction
\* of Sim cannot fail because of it.
C5_NoThresholdCall ==
    costofbalking.kind = "False" => (naorcalls = 0 /\ pc # "error")

\* C6: without balking every processed customer joined the queue (it is in
\* the queue or was popped from it), nobody balked, the balked list is empty.
C6_NoBalking ==
    costofbalking.kind = "False" =>
        /\ balked = <<>>
        /\ \A p \in Processed :
               ~P[p].balked /\ (InSeq(p, queue) \/ Popped(p))

\* C6 witness: a customer has just joined behind a waiting customer and a
\* busy server.
C6_Witness ==
    /\ costofbalking.kind = "False"
    /\ pc = "loop" /\ t > 0
    /\ P[nextplayer].arrivaldate = t
    /\ Len(queue) >= 2 /\ queue[Len(queue)] = nextplayer
    /\ ~P[queue[1]].served
    /\ Len(server) = 1 /\ server[1] # queue[1]

\* The function f of the claim, for rho = l / m.
ClaimF(n, l, m) ==
    LET rho == RDiv(R(l), R(m))
    IN RDiv(RSub(RMul(R(n), RSub(R(1), rho)),
                 RMul(rho, RSub(R(1), RPow(rho, n)))),
            RMul(RSub(R(1), rho), RSub(R(1), rho)))

ClaimBracket(n, l, m, c) ==
    /\ RLe(ClaimF(n, l, m), RMul(R(m), c))
    /\ RLt(RMul(R(m), c), ClaimF(n + 1, l, m))

\* C7: for 0 < lmbda < mu and c > 0, naorthreshold returns an n >= 0 with
\* f(n) <= mu c < f(n+1), and no other n has that property.
C7_NaorBracket ==
    (f_naor # <<>> /\ f_in.lmbda < f_in.mu /\ RLt(R(0), f_in.c1)) =>
        /\ f_naor[1].tag = "return"
        /\ f_naor[1].n >= 0
        /\ ClaimBracket(f_naor[1].n, f_in.lmbda, f_in.mu, f_in.c1)
        /\ \A k \in 0 .. NaorCap :
               ClaimBracket(k, f_in.lmbda, f_in.mu, f_in.c1) => k = f_naor[1].n

\* C7 witness: a threshold of at least 2 was returned for rho < 1.
C7_Witness ==
    /\ f_naor # <<>> /\ f_in.lmbda < f_in.mu /\ RLt(R(0), f_in.c1)
    /\ f_naor[1].tag = "return" /\ f_naor[1].n >= 2

\* C8: for rho # 1 and costs 0 < c1 <= c2, the threshold for c1 is at most
\* the threshold for c2.
C8_NaorMonotone ==
    (/\ f_naor # <<>> /\ f_in.lmbda # f_in.mu
     /\ RLt(R(0), f_in.c1) /\ RLe(f_in.c1, f_in.c2)) =>
        /\ f_naor[1].tag = "return" /\ f_naor[2].tag = "return"
        /\ f_naor[1].n <= f_naor[2].n

\* C8 witness: two costs c1 < c2 with different thresholds.
C8_Witness ==
    /\ f_naor # <<>> /\ f_in.lmbda # f_in.mu
    /\ RLt(R(0), f_in.c1) /\ RLt(f_in.c1, f_in.c2)
    /\ f_naor[1].tag = "return" /\ f_naor[2].tag = "return"
    /\ f_naor[1].n < f_naor[2].n

\* C9: at a fixed occupancy and service rate, a selfish customer that joins
\* with cost c1 joins with every cost c2 >= c1.
C9_SelfishMonotone ==
    (f_selfish # <<>> /\ RLe(f_in.c1, f_in.c2) /\ f_selfish[1]) => f_selfish[2]

\* C9 witness: a selfish customer joins a non-empty system at both costs.
C9_Witness ==
    /\ f_selfish # <<>> /\ RLt(f_in.c1, f_in.c2)
    /\ f_selfish[1] /\ f_selfish[2] /\ f_in.s >= 1

\* The state in which the arrival of this step, if any, is processed: the
\* one the service check of the tick leaves (at t = 0, the initial one).
AtArrival ==
    IF pc = "ready" THEN Here
    ELSE FinishService(Here, t + Scale, CHOOSE d \in Draws : TRUE)

\* The player p has joined the queue in this step.
JoinsInStep(p) ==
    \/ InSeq(p, queue')
    \/ \E i \in Len(poplog) + 1 .. Len(poplog') : poplog'[i].p = p

\* C10: a selfish customer whose arrival is processed joins the queue iff
\* (queue length + server occupancy + 1) / mu < costofbalking; otherwise it
\* is marked balked and is not in the queue.
C10_SelfishDecision ==
    [][(nextplayer' # nextplayer /\ P'[nextplayer'].kind = "SelfishPlayer") =>
          LET p == nextplayer'
              occupancy == Len(AtArrival.queue) + Len(AtArrival.server)
              join == RLt(RDiv(R(occupancy + 1), R(mu)), costofbalking.c)
          IN /\ join => (JoinsInStep(p) /\ ~P'[p].balked)
             /\ ~join => (P'[p].balked /\ ~InSeq(p, queue') /\ ~JoinsInStep(p))
      ]_vars

\* C10 witness: one selfish customer joined a system that was not empty,
\* another balked.
C10_Witness ==
    /\ \E p \in Processed :
           /\ P[p].kind = "SelfishPlayer" /\ ~P[p].balked
           /\ P[p].systemstate >= 1
    /\ \E p \in Processed :
           /\ P[p].kind = "SelfishPlayer" /\ P[p].balked
           /\ P[p].arrivaldate > 0

\* C11: a socially optimal customer whose arrival is processed joins the
\* queue iff queue length + server occupancy < the threshold computed (once)
\* at construction; otherwise it is marked balked and is not in the queue.
\* With threshold 0 it balks.
C11_OptimalDecision ==
    [][/\ naorcalls' <= 1
       /\ pc # "new" => self_naorthreshold' = self_naorthreshold
       /\ (nextplayer' # nextplayer /\ P'[nextplayer'].kind = "OptimalPlayer") =>
            LET p == nextplayer'
                occupancy == Len(AtArrival.queue) + Len(AtArrival.server)
                join == occupancy < self_naorthreshold.n
            IN /\ self_naorthreshold.tag = "return"
               /\ join => (JoinsInStep(p) /\ ~P'[p].balked)
               /\ ~join => (P'[p].balked /\ ~InSeq(p, queue') /\ ~JoinsInStep(p))
               /\ self_naorthreshold.n = 0 => P'[p].balked
      ]_vars

\* C11 witness: with a positive threshold one socially optimal customer
\* joined and another, arriving at an occupied system, balked.
C11_Witness ==
    /\ self_naorthreshold.tag = "return" /\ self_naorthreshold.n >= 1
    /\ \E p \in Processed : P[p].kind = "OptimalPlayer" /\ ~P[p].balked
    /\ \E p \in Processed :
           /\ P[p].kind = "OptimalPlayer" /\ P[p].balked
           /\ P[p].systemstate >= 1 /\ P[p].arrivaldate > 0

\* The class Sim.newplayer is claimed to give a customer generated with the
\* uniform draw random (the draw matters with [selfishProportion, cost] only).
ClaimedPolicy(p) ==
    CASE costofbalking.kind = "False" -> "Player"
      [] costofbalking.kind = "float" -> "SelfishPlayer"
      [] costofbalking.kind = "list" ->
           LET d == CHOOSE i \in 1 .. Len(drawn') : drawn'[i].p = p
           IN IF RLt(drawn'[d].random, costofbalking.p)
              THEN "SelfishPlayer"
              ELSE "OptimalPlayer"

\* C12: every customer Sim.newplayer generates is Unconditional without a
\* cost, Selfish with a scalar cost, and with [selfishProportion, cost]
\* Selfish iff its uniform draw in [0, 1) is below selfishProportion and
\* SociallyOptimal otherwise: all SociallyOptimal with proportion 0, all
\* Selfish with proportion 1.
C12_PolicySelection ==
    [][\A p \in Len(P) + 1 .. Len(P') :
          /\ costofbalking.kind = "list" =>
                 \E i \in 1 .. Len(drawn') :
                     /\ drawn'[i].p = p
                     /\ RLe(R(0), drawn'[i].random) /\ RLt(drawn'[i].random, R(1))
          /\ P'[p].kind = ClaimedPolicy(p)
          /\ (costofbalking.kind = "list" /\ costofbalking.p = R(0)) =>
                 P'[p].kind = "OptimalPlayer"
          /\ (costofbalking.kind = "list" /\ costofbalking.p = R(1)) =>
                 P'[p].kind = "SelfishPlayer"
      ]_vars

\* C12 witness: with a proportion strictly between 0 and 1 a selfish and a
\* socially optimal customer have been generated, the latest from a draw.
C12_Witness ==
    /\ costofbalking.kind = "list"
    /\ RLt(R(0), costofbalking.p) /\ RLt(costofbalking.p, R(1))
    /\ \E p \in 1 .. Len(P) : P[p].kind = "SelfishPlayer"
    /\ \E p \in 1 .. Len(P) : P[p].kind = "OptimalPlayer"
    /\ Len(drawn) > 0 /\ drawn[Len(drawn)].p = Len(P)

\* C13: with lmbda = mu naorthreshold does not evaluate the division by zero
\* of the closed form: it fails with a domain error or returns the threshold
\* of the limiting form, and it does not loop.
C13_CriticalLoadSpecialCased ==
    (f_naor # <<>> /\ f_in.lmbda = f_in.mu) =>
        f_naor[1].tag \in {"return", "DomainError"}

\* C14: for every lmbda > 0, mu > 0 and every cost (0, false and negative
\* ones included) naorthreshold returns an n or fails with an error after a
\* bounded number of iterations.
C14_SearchTerminates ==
    (f_naor # <<>> /\ f_in.lmbda > 0 /\ f_in.mu > 0) =>
        (f_naor[1].tag # "noreturn" /\ f_naor[2].tag # "noreturn")

\* C15: with a non-positive arrival rate, service rate or horizon the
\* construction of Sim fails, and the simulation does not start: no customer
\* is created, no arrival is processed, no tick is recorded.
C15_MalformedFailsFast ==
    (lmbda <= 0 \/ mu <= 0 \/ T <= 0) =>
        /\ pc \in {"new", "error"}
        /\ Len(P) = 0 /\ Processed = {}
        /\ DOMAIN queuelengthdict = {} /\ DOMAIN systemstatedict = {}

\* The ticks 1, 2, ..., n as dates.
Ticks(n) == {k * Scale : k \in 1 .. n}

\* C16: once called, run returns; its clock starts at 0, increases by
\* exactly 1 in every iteration and never otherwise, no iteration begins with
\* t >= T, and when run returns queue length and occupancy have been recorded
\* for the ticks 1 .. ceil(T) and for no other key.
C16_RunTerminates ==
    /\ (pc = "ready") ~> (pc = "done")
    /\ [](pc \in {"new", "ready"} => t = 0)
    /\ [][/\ pc = "ready" => t' = 0
          /\ t' # t => (pc = "loop" /\ t < T /\ t' = t + Scale)
          /\ (pc = "loop" /\ pc' = "loop") => t' = t + Scale
         ]_vars
    /\ [](pc \in {"loop", "done"} =>
             /\ DOMAIN queuelengthdict = Ticks(t \div Scale)
             /\ DOMAIN systemstatedict = Ticks(t \div Scale))
    /\ [](pc = "done" => (t >= T /\ (t = 0 \/ t - Scale < T)))

\* C16 witness: run has returned at the largest horizon, with a sample for
\* each of its ticks.
C16_Witness ==
    /\ pc = "done" /\ T = MaxT * Scale /\ t = T
    /\ DOMAIN queuelengthdict = Ticks(MaxT)
    /\ Len(completed) > 0

\* Number of places of the list seq that hold x.
Count(x, seq) == Cardinality({i \in 1 .. Len(seq) : seq[i] = x})

\* C17: every customer is held by at most one of the pending list, the
\* queue, the server, the completed list and the balked list, and a customer
\* in the queue has balked = false and has not started service.
C17_SingleOwner ==
    /\ \A p \in 1 .. Len(P) :
           Count(p, players) + Count(p, queue) + Count(p, server)
               + Count(p, completed) + Count(p, balked) <= 1
    /\ \A i \in 1 .. Len(queue) :
           /\ ~P[queue[i]].balked
           /\ P[queue[i]].endqueuedate = Unset
           /\ ~InSeq(queue[i], server) /\ ~InSeq(queue[i], completed)

\* C18: at the end of every tick (when the data is collected) the server is
\* not free while a customer that has not been served waits in the queue: a
\* completion with such a customer waiting starts the head's service at once.
C18_WorkConserving ==
    (pc \in {"loop", "done"} /\ t > 0 /\ Len(server) = 0) =>
        \A i \in 1 .. Len(queue) : P[queue[i]].served

\* C19: once its arrival has been processed, a customer that decided to balk
\* is in the balked list exactly once, the customer that arrives at t = 0
\* included, and the balked list holds only customers with balked = true.
C19_BalkedListed ==
    /\ \A p \in Processed : P[p].balked => Count(p, balked) = 1
    /\ \A i \in 1 .. Len(balked) : P[balked[i]].balked

\* The tick at which run sees the service of the customer p end: the first
\* tick after its servicedate.
CompletionTick(p) == (P[p].servicedate \div Scale + 1) * Scale

\* C20: the server holds at most one customer: no service is started while
\* the server is occupied (a start appends to the server, and within a tick
\* nothing is removed after a start).
C20_SingleServer ==
    Len(server) <= 1

\* C20 witness: a service was started at t = 0, another on arrival at a free
\* server, and another when a service other than the first ended with a
\* customer waiting; the server is occupied.
C20_Witness ==
    /\ Len(server) = 1
    /\ P[1].endqueuedate = 0
    /\ \E p \in Joined : P[p].arrivaldate > 0 /\ P[p].endqueuedate = P[p].arrivaldate
    /\ \E i \in 1 .. Len(poplog), q \in 2 .. Len(P) :
           /\ InSeq(q, completed) /\ q # poplog[i].p
           /\ poplog[i].started /\ poplog[i].t = CompletionTick(q)
           /\ P[poplog[i].p].arrivaldate < poplog[i].t

\* C21: a customer with balked = true is never in the queue (nor popped from
\* it), never in the server, never in the completed list and never served;
\* a customer that has been served never starts service again.
C21_Lifecycle ==
    [][/\ \A p \in 1 .. Len(P') :
             P'[p].balked =>
                 /\ ~InSeq(p, queue') /\ ~InSeq(p, server')
                 /\ ~InSeq(p, completed')
                 /\ \A i \in 1 .. Len(poplog') : poplog'[i].p # p
                 /\ P'[p].endqueuedate = Unset /\ ~P'[p].served
       /\ \A p \in 1 .. Len(P) :
             P[p].served =>
                 /\ P'[p].served /\ ~P'[p].balked
                 /\ P'[p].endqueuedate = P[p].endqueuedate
                 /\ P'[p].servicedate = P[p].servicedate
                 /\ ~InSeq(p, server')
      ]_vars

\* C21 witness: one customer balked, another was served, and startservice
\* was called on a served customer (the pop of line 497 started nobody).
C21_Witness ==
    /\ \E p \in Processed : P[p].balked /\ InSeq(p, balked)
    /\ \E p \in Processed : P[p].served /\ InSeq(p, completed)
    /\ \E i \in 1 .. Len(poplog) : ~poplog[i].started /\ P[poplog[i].p].served

\* The customers that have started service.
Started == {p \in Processed : P[p].endqueuedate # Unset}

\* C22: a customer that started service at tick s with service time d is in
\* the server and not completed at every tick t <= s + d, and is completed
\* (served, out of the server) at every tick t > s + d: it is moved at the
\* first tick after s + d.  Its endservicedate is endqueuedate + servicetime.
C22_CompletionTiming ==
    \A p \in Started :
        /\ P[p].servicedate = P[p].endqueuedate + P[p].servicetime
        /\ t <= P[p].servicedate =>
               /\ InSeq(p, server) /\ ~InSeq(p, completed) /\ ~P[p].served
        /\ t > P[p].servicedate =>
               /\ ~InSeq(p, server) /\ Count(p, completed) = 1 /\ P[p].served
               /\ P[p].endservicedate = P[p].endqueuedate + P[p].servicetime

\* C22 witness: a customer with service time 1 has been completed, and the
\* clock is exactly at the service date of the customer in service, which
\* started after t = 0 and is therefore not completed yet.
C22_Witness ==
    /\ \E p \in Started : P[p].servicetime = Scale /\ InSeq(p, completed)
    /\ \E q \in Started :
           /\ InSeq(q, server) /\ P[q].servicedate = t
           /\ P[q].endqueuedate > 0

\* The state after this step: arrivals processed and services started.
ProcessedNext == {p \in 1 .. Len(P') : P'[p].arrivaldate # Unset}
StartedNext == {p \in ProcessedNext : P'[p].endqueuedate # Unset}

\* C23: one tick processes at most one arrival, completes at most one service
\* and starts at most one service; a customer's arrival is processed at the
\* first tick strictly greater than the previous arrival tick plus its
\* inter-arrival time, and not before, so arrival ticks increase strictly.
C23_PerTickBounds ==
    [][/\ Cardinality(ProcessedNext \ Processed) <= 1
       /\ Len(completed') - Len(completed) <= 1
       /\ Cardinality(StartedNext \ Started) <= 1
       /\ \A p \in ProcessedNext \ Processed : P'[p].arrivaldate = t'
       /\ \A p \in 2 .. Len(P') :
              LET due == P'[p - 1].arrivaldate + P'[p].interarrivaltime
              IN IF p \in ProcessedNext
                 THEN /\ p - 1 \in ProcessedNext
                      /\ P'[p].arrivaldate > due
                      /\ P'[p].arrivaldate - Scale <= due
                      /\ P'[p].arrivaldate >= P'[p - 1].arrivaldate + Scale
                 ELSE p - 1 \in ProcessedNext => t' <= due
      ]_vars

\* C23 witness: one customer arrived at the tick after its predecessor,
\* another two ticks after its predecessor, and a service has completed.
C23_Witness ==
    /\ \E p \in Processed :
           p + 1 \in Processed /\ P[p + 1].arrivaldate = P[p].arrivaldate + Scale
    /\ \E p \in Processed :
           /\ p + 1 \in Processed /\ P[p + 1].interarrivaltime = Scale
           /\ P[p + 1].arrivaldate = P[p].arrivaldate + 2 * Scale
    /\ Len(completed) >= 1

\* The customers in the system: waiting in the queue or in service, each
\* counted once.
InSystem == {p \in 1 .. Len(P) : InSeq(p, queue) \/ InSeq(p, server)}

\* Every customer is socially optimal: costofbalking = [0, c].
AllOptimal == costofbalking.kind = "list" /\ costofbalking.p = R(0)

\* C24: when every customer is socially optimal, the number of customers in
\* the system never exceeds the threshold.
C24_OccupancyBound ==
    (AllOptimal /\ self_naorthreshold.tag = "return") =>
        Cardinality(InSystem) <= self_naorthreshold.n

\* C24 witness: the system is full (as many customers as the threshold, at
\* least one) and a socially optimal customer that found it so has balked.
C24_Witness ==
    /\ AllOptimal /\ self_naorthreshold.tag = "return"
    /\ self_naorthreshold.n >= 1
    /\ Cardinality(InSystem) = self_naorthreshold.n
    /\ \E p \in Processed : P[p].balked /\ P[p].arrivaldate = t /\ t > 0

\* C25: every customer is in the completed list at most once, and the list
\* is ordered by arrival: an earlier element's arrival was processed before
\* a later element's.
C25_CompletedOrdered ==
    /\ \A p \in 1 .. Len(P) : Count(p, completed) <= 1
    /\ \A i \in 1 .. Len(completed), j \in 1 .. Len(completed) :
           i < j =>
               /\ completed[i] < completed[j]
               /\ P[completed[i]].arrivaldate < P[completed[j]].arrivaldate

\* C25 witness: two customers have been completed while a third, which
\* arrived later, is in the system.
C25_Witness ==
    /\ Len(completed) >= 2
    /\ \E p \in InSystem : p > completed[Len(completed)]

\* C26: the customers of QSim form a single-server FIFO schedule: nobody is
\* served before arriving (wait >= 0), and each customer after the first
\* starts when it has arrived and its predecessor has ended, no later: at
\* the larger of its arrival date and its predecessor's end date.
C26_ValidSchedule ==
    \A i \in 1 .. Len(Customers) :
        LET c == Customers[i]
        IN /\ c.service_start_date >= c.arrival_date
           /\ c.wait = c.service_start_date - c.arrival_date /\ c.wait >= 0
           /\ c.service_end_date = c.service_start_date + c.service_time
           /\ i = 1 => c.service_start_date = c.arrival_date
           /\ i > 1 =>
                  LET b == Customers[i - 1]
                  IN /\ c.service_start_date >= b.service_end_date
                     /\ c.arrival_date >= b.arrival_date
                     /\ c.service_start_date
                            = (IF c.arrival_date >= b.service_end_date
                               THEN c.arrival_date ELSE b.service_end_date)

\* C26 witness: one customer waited for its predecessor, another found the
\* server idle for a while before it arrived.
C26_Witness ==
    /\ \E i \in 2 .. Len(Customers) : Customers[i].wait > 0
    /\ \E i \in 2 .. Len(Customers) :
           Customers[i].arrival_date > Customers[i - 1].service_end_date

\* C27: with positive sampled inter-arrival times QSim's loop ends; all
\* customers but the last have arrival_date < simulation_time, and on exit
\* the last has arrival_date >= simulation_time; there is at least one
\* customer, and the final clock is the last customer's arrival date.
C27_GenerationTerminates ==
    /\ (q_pc = "idle") ~> (q_pc = "done")
    /\ [](q_pc \in {"loop", "done"} =>
             /\ \A i \in 1 .. Len(Customers) - 1 :
                    Customers[i].arrival_date < simulation_time
             /\ Len(Customers) > 0 =>
                    q_t = Customers[Len(Customers)].arrival_date)
    /\ [](q_pc = "done" =>
             /\ Len(Customers) >= 1
             /\ Customers[Len(Customers)].arrival_date >= simulation_time
             /\ q_t = Customers[Len(Customers)].arrival_date)

\* C27 witness: QSim has ended with three customers or more, the last one
\* arriving after the horizon.
C27_Witness ==
    /\ q_pc = "done" /\ Len(Customers) >= 3
    /\ Customers[Len(Customers)].arrival_date > simulation_time

\* The players of turtletest.Sim in the order of their arrival: the list is
\* popped from its end.
TArrivalRank(p) == tt.N + 1 - p

\* C28: run of turtletest.Sim returns; then each of the N players has
\* arrived, has been served and is in the completed list exactly once, in
\* the order of arrival (which is also the order of the starts of service);
\* the server never holds more than one player.
C28_PopulationServed ==
    /\ (tt.pc = "ready") ~> (tt.pc = "done")
    /\ [](Len(tt.server) <= 1)
    /\ [](tt.pc = "done" =>
             /\ Len(tt.completed) = tt.N
             /\ tt.queue = <<>> /\ tt.server = <<>> /\ tt.players = <<>>
             /\ \A p \in 1 .. tt.N :
                    /\ tt.P[p].arrivaldate # Unset /\ tt.P[p].served
                    /\ tt.P[p].servicedate # Unset
                    /\ Count(p, tt.completed) = 1
                    /\ tt.completed[TArrivalRank(p)] = p
             /\ \A p \in 1 .. tt.N, q \in 1 .. tt.N :
                    TArrivalRank(p) < TArrivalRank(q) =>
                        /\ tt.P[p].arrivaldate < tt.P[q].arrivaldate
                        /\ tt.P[p].servicedate - tt.P[p].servicetime
                               < tt.P[q].servicedate - tt.P[q].servicetime)

\* C28 witness: run has returned for the largest population, and one of the
\* players had to wait more than a tick for its service.
C28_Witness ==
    /\ tt.pc = "done" /\ tt.N = MaxN /\ Len(tt.completed) = MaxN
    /\ \E p \in 1 .. tt.N :
           tt.P[p].servicedate - tt.P[p].servicetime
               > tt.P[p].arrivaldate + Scale

\* The pending list of a state s holds exactly one customer, the one generated
\* last, which has not arrived and is in no other list.
OnePending(s) ==
    /\ Len(s.players) = 1
    /\ s.players[1] = Len(s.P)
    /\ s.P[s.players[1]].arrivaldate = Unset
    /\ s.players[1] # s.nextplayer
    /\ ~InSeq(s.players[1], s.queue) /\ ~InSeq(s.players[1], s.server)
    /\ ~InSeq(s.players[1], s.completed) /\ ~InSeq(s.players[1], s.balked)

\* C29: in Sim.run the pending list holds exactly one customer that has not
\* arrived, at the start of every iteration of the loop, when run returns, and
\* at the moment the arrival condition of line 501 is evaluated (after the
\* service check of lines 493-499, whatever that check generated); the arrival
\* check therefore never fails on an empty pending list.
C29_OnePending ==
    /\ err # "IndexError"
    /\ pc \in {"loop", "done"} => OnePending(Here)
    /\ pc = "loop" /\ t < T =>
           \A d \in Draws : OnePending(FinishService(Here, t + Scale, d))

\* C29 witness: the loop is running, an arrival inside the loop has popped the
\* pending customer and a replacement was generated, and the service check of
\* the next iteration is about to take a customer from the queue and call
\* newplayer with a customer pending.
C29_Witness ==
    /\ pc = "loop" /\ t < T
    /\ Len(P) >= 3
    /\ Len(players) = 1
    /\ \E d \in Draws :
           Len(FinishService(Here, t + Scale, d).poplog) > Len(poplog)

====
